---- MODULE Spec2Model ----
(***************************************************************************)
(* A model of the value-to-buffer core of vscode-helpers (src/index.ts):   *)
(* createCompletedAction, readAll, asBuffer / asBufferInner and execFile,  *)
(* together with the helpers they use (toStringSafe, normalizeString,      *)
(* asArray, the Buffer constructor, JSON.stringify).                       *)
(*                                                                         *)
(* JavaScript values are records tagged by "kind".  Strings are sequences  *)
(* of character codes and buffers are sequences of bytes, so that encoding *)
(* a string into a buffer is a computation and not the identity.           *)
(***************************************************************************)
EXTENDS Integers, Sequences, FiniteSets, TLC

VARIABLES
    guard,      \* the closure state of one createCompletedAction() result
    guardCalls, \* history: the <<err, result>> pairs the produced callable got
    ra,         \* the closure state of one readAll() call
    raHist,     \* history: the events the stream delivered to the call's listeners
    raLate,     \* history: the events the call's handlers observed after completion
    ab,         \* the frame of the running asBufferInner() recursion
    abIn,       \* history: the arguments asBuffer() was called with
    abCalls,    \* history: the arguments each deferred-value function got
    pair,        \* the closure states of two readAll() calls and the streams they read
    ex          \* the closure state of one execFile() call

vars == <<guard, guardCalls, ra, raHist, raLate, ab, abIn, abCalls, pair, ex>>
guardVars == <<guard, guardCalls>>
raVars == <<ra, raHist, raLate>>
abVars == <<ab, abIn, abCalls>>
pairVars == <<pair>>
exVars == <<ex>>

-----------------------------------------------------------------------------
(* Bounds of the model *)

\* calls made to one completed-action
MaxGuardCalls == 3
\* events one stream delivers to a direct readAll call
MaxEvents == 4
\* events one stream delivers to a readAll call made by asBuffer
MaxStreamEvents == 2
\* how many events the streams of two concurrent readAll calls emit
MaxPairEvents == 3
\* how many times the process launcher invokes the callback of one execFile call
MaxCallbacks == 2
\* nesting of deferred-value functions explored with every argument combination
MaxChain == 3
\* largest explicit maxDepth argument
MaxDepthArg == 3

\* asBufferInner: "maxDepth = 63"
DefaultMaxDepth == 63

-----------------------------------------------------------------------------
(* JavaScript values *)

Undefined == [kind |-> "undefined"]
Null == [kind |-> "null"]
JsStr(s) == [kind |-> "string", chars |-> s]
JsNum(n) == [kind |-> "number", num |-> n]
JsBool(b) == [kind |-> "boolean", bool |-> b]
JsBuf(bs) == [kind |-> "buffer", bytes |-> bs]
JsErr(m) == [kind |-> "error", message |-> m]
JsArr(xs) == [kind |-> "array", items |-> xs]
\* an array of values: [ 'a', null, 5 ]
JsArrOf(vs) == [kind |-> "array", elems |-> vs]
\* proto: "plain" (Object.prototype), "custom" (own toString returning str),
\* "bare" (Object.create(null): no toString at all)
JsObj(p, ps, s) == [kind |-> "object", proto |-> p, props |-> ps, str |-> s]
\* a deferred value: n >= 1 functions nested, the innermost returning term;
\* promise says whether each returns its value through a promise
JsFunc(n, t, p) == [kind |-> "function", nest |-> n, term |-> t, promise |-> p]
JsStream == [kind |-> "stream", readable |-> TRUE]

\* _.isNil
IsNil(v) == v.kind \in {"undefined", "null"}
\* Buffer.isBuffer
IsBuffer(v) == v.kind = "buffer"
\* _.isString
IsString(v) == v.kind = "string"
\* _.isFunction
IsFunction(v) == v.kind = "function"
\* IsStream.readable
IsReadable(v) == v.kind = "stream"
\* _.isObject: every non-primitive, arrays and errors included
IsObject(v) == v.kind \in {"object", "array", "error", "buffer", "function", "stream"}

\* ToBoolean, as "if (err)" and "!chunk" apply it
Truthy(v) ==
    CASE v.kind \in {"undefined", "null"} -> FALSE
      [] v.kind = "boolean" -> v.bool
      [] v.kind = "number" -> v.num # 0
      [] v.kind = "string" -> v.chars # <<>>
      [] OTHER -> TRUE

-----------------------------------------------------------------------------
(* Strings *)

RECURSIVE Digits(_)
Digits(n) == IF n < 10 THEN <<48 + n>> ELSE Digits(n \div 10) \o <<48 + (n % 10)>>

\* Number.prototype.toString for integers
NumToString(n) == IF n < 0 THEN <<45>> \o Digits(-n) ELSE Digits(n)

RECURSIVE Join(_)
\* Array.prototype.join(",") of an array of integers
Join(xs) ==
    IF xs = <<>> THEN <<>>
    ELSE IF Len(xs) = 1 THEN NumToString(xs[1])
    ELSE NumToString(xs[1]) \o <<44>> \o Join(Tail(xs))

\* String.prototype.toLowerCase
ToLowerCase(s) == [i \in 1..Len(s) |-> IF s[i] >= 65 /\ s[i] <= 90 THEN s[i] + 32 ELSE s[i]]

IsSpace(c) == c \in {9, 10, 13, 32}

RECURSIVE TrimLeft(_)
TrimLeft(s) == IF s # <<>> /\ IsSpace(Head(s)) THEN TrimLeft(Tail(s)) ELSE s

RECURSIVE TrimRight(_)
TrimRight(s) ==
    IF s # <<>> /\ IsSpace(s[Len(s)]) THEN TrimRight(SubSeq(s, 1, Len(s) - 1)) ELSE s

\* String.prototype.trim
Trim(s) == TrimRight(TrimLeft(s))

RECURSIVE JsonProps(_)
JsonProps(ps) ==
    IF ps = <<>> THEN <<>>
    ELSE <<34, ps[1][1], 34, 58>> \o NumToString(ps[1][2])
         \o (IF Len(ps) > 1 THEN <<44>> ELSE <<>>) \o JsonProps(Tail(ps))

\* JSON.stringify of the objects of the model: an array of integers, an object
\* with integer properties, an Error (no enumerable property: "{}")
JSONStringify(v) ==
    CASE v.kind = "array" -> <<91>> \o Join(v.items) \o <<93>>
      [] v.kind = "object" -> <<123>> \o JsonProps(v.props) \o <<125>>
      [] OTHER -> <<123, 125>>

\* val.toString() of the values that have one
ToStringMethod(v) ==
    CASE v.kind = "number" -> NumToString(v.num)
      [] v.kind = "boolean" ->
            IF v.bool THEN <<116, 114, 117, 101>> ELSE <<102, 97, 108, 115, 101>>
      [] v.kind = "array" -> Join(v.items)
      [] v.kind = "object" /\ v.proto = "custom" -> v.str
      \* Object.prototype.toString: "[object Object]"
      [] OTHER -> <<91, 111, 98, 106, 101, 99, 116, 32, 79, 98, 106, 101, 99, 116, 93>>

HasToString(v) == ~(v.kind = "object" /\ v.proto = "bare")

\* toStringSafe(val) with the default defaultVal ''
toStringSafe(v) ==
    IF IsString(v) THEN v.chars
    ELSE IF IsNil(v) THEN <<>>
    ELSE IF v.kind = "error" THEN v.message
    ELSE IF HasToString(v) THEN ToStringMethod(v)
    ELSE JSONStringify(v)

\* a normalizer that lower-cases but does not trim
normalizeStringNoTrim(v) == ToLowerCase(toStringSafe(v))

\* normalizeString(val) with the default normalizer
normalizeString(v) == Trim(ToLowerCase(toStringSafe(v)))

\* "enc = normalizeString(enc); if ('' === enc) enc = undefined"
NormalizeEnc(e) == IF normalizeString(e) = <<>> THEN Undefined ELSE JsStr(normalizeString(e))

-----------------------------------------------------------------------------
(* The Buffer constructor *)

\* the encoding names of the model that Buffer accepts: "utf8", "hex", "latin1"
EncUtf8 == <<117, 116, 102, 56>>
EncHex == <<104, 101, 120>>
EncLatin1 == <<108, 97, 116, 105, 110, 49>>

\* whether new Buffer(string, enc) accepts enc (a non-string or '' means utf8)
EncodingOk(enc) ==
    \/ ~IsString(enc)
    \/ enc.chars = <<>>
    \/ ToLowerCase(enc.chars) \in {EncUtf8, EncHex, EncLatin1}

Utf8Char(c) ==
    IF c < 128 THEN <<c>>
    ELSE IF c < 2048 THEN <<192 + (c \div 64), 128 + (c % 64)>>
    ELSE <<224 + (c \div 4096), 128 + ((c \div 64) % 64), 128 + (c % 64)>>

RECURSIVE Utf8Encode(_)
Utf8Encode(s) == IF s = <<>> THEN <<>> ELSE Utf8Char(Head(s)) \o Utf8Encode(Tail(s))

HexDigit(c) ==
    IF c >= 48 /\ c <= 57 THEN c - 48
    ELSE IF c >= 97 /\ c <= 102 THEN c - 87
    ELSE IF c >= 65 /\ c <= 70 THEN c - 55
    ELSE -1

RECURSIVE HexEncode(_)
\* pairs of hex digits, up to the first pair that is not one
HexEncode(s) ==
    IF Len(s) < 2 \/ HexDigit(s[1]) < 0 \/ HexDigit(s[2]) < 0 THEN <<>>
    ELSE <<16 * HexDigit(s[1]) + HexDigit(s[2])>> \o HexEncode(Tail(Tail(s)))

Latin1Encode(s) == [i \in 1..Len(s) |-> s[i] % 256]

\* the bytes of new Buffer(s, enc), for an encoding Buffer accepts
Encode(s, enc) ==
    IF ~IsString(enc) \/ enc.chars = <<>> THEN Utf8Encode(s)
    ELSE IF ToLowerCase(enc.chars) = EncHex THEN HexEncode(s)
    ELSE IF ToLowerCase(enc.chars) = EncLatin1 THEN Latin1Encode(s)
    ELSE Utf8Encode(s)

RECURSIVE Utf8Decode(_)
\* buffer.toString('utf8') of well-formed one-, two- and three-byte sequences
Utf8Decode(bs) ==
    IF bs = <<>> THEN <<>>
    ELSE IF bs[1] < 128 THEN <<bs[1]>> \o Utf8Decode(Tail(bs))
    ELSE IF bs[1] < 224 /\ Len(bs) >= 2
        THEN <<(bs[1] - 192) * 64 + (bs[2] - 128)>> \o Utf8Decode(Tail(Tail(bs)))
    ELSE IF Len(bs) >= 3
        THEN <<(bs[1] - 224) * 4096 + (bs[2] - 128) * 64 + (bs[3] - 128)>>
             \o Utf8Decode(Tail(Tail(Tail(bs))))
    ELSE <<65533>>

\* the TypeError of new Buffer(string, enc) for an unknown encoding ("UE")
UnknownEncodingError == JsErr(<<85, 69>>)
\* the TypeError of Buffer.concat for a list element that is no buffer ("NB")
NotABufferError == JsErr(<<78, 66>>)

\* new Buffer(s, enc): [ok, value] with the buffer, or the error thrown
NewBuffer(s, enc) ==
    IF EncodingOk(enc) THEN [ok |-> TRUE, value |-> JsBuf(Encode(s, enc))]
    ELSE [ok |-> FALSE, value |-> UnknownEncodingError]

-----------------------------------------------------------------------------
(* createCompletedAction *)

NoGuard == [created |-> FALSE, resolve |-> FALSE, reject |-> FALSE,
            completedInvoked |-> FALSE, resolved |-> <<>>, rejected |-> <<>>]

\* the error and result values the callable is given
GuardErrs == {Null, Undefined, JsNum(0), JsStr(<<>>), JsErr(<<69, 49>>), JsErr(<<69, 50>>)}
GuardResults == {Undefined, JsNum(1), JsNum(2)}

\* createCompletedAction(resolve, reject): hasResolve / hasReject say which
\* callbacks the caller supplied
CreateCompletedAction(hasResolve, hasReject) ==
    /\ ~guard.created /\ ~ra.called /\ ~ab.called
    /\ pair.order = <<>> /\ ~ex.called
    /\ guard' = [NoGuard EXCEPT !.created = TRUE, !.resolve = hasResolve,
                                !.reject = hasReject]
    /\ UNCHANGED <<guardCalls, raVars, abVars, pairVars, exVars>>

\* the callable without its "if (completedInvoked) return" test
CompletedActionMissingFlag(g, err, result) ==
    IF Truthy(err)
    THEN (IF g.reject THEN [g EXCEPT !.rejected = Append(@, err)] ELSE g)
    ELSE (IF g.resolve THEN [g EXCEPT !.resolved = Append(@, result)] ELSE g)

\* a callable that sets its flag only when it invokes a callback
CompletedActionFlagOnCallback(g, err, result) ==
    IF g.completedInvoked THEN g
    ELSE IF Truthy(err)
         THEN (IF g.reject
               THEN [g EXCEPT !.completedInvoked = TRUE, !.rejected = Append(@, err)]
               ELSE g)
         ELSE (IF g.resolve
               THEN [g EXCEPT !.completedInvoked = TRUE, !.resolved = Append(@, result)]
               ELSE g)

\* (err, result?) => { ... }: the closure state after one call
CompletedActionBody(g, err, result) ==
    IF g.completedInvoked THEN g
    ELSE LET g1 == [g EXCEPT !.completedInvoked = TRUE]
         IN IF Truthy(err)
            THEN (IF g1.reject THEN [g1 EXCEPT !.rejected = Append(@, err)] ELSE g1)
            ELSE (IF g1.resolve THEN [g1 EXCEPT !.resolved = Append(@, result)] ELSE g1)

\* one call of the produced callable
CompletedAction(err, result) ==
    /\ guard.created
    /\ Len(guardCalls) < MaxGuardCalls
    /\ guard' = CompletedActionBody(guard, err, result)
    /\ guardCalls' = Append(guardCalls, <<err, result>>)
    /\ UNCHANGED <<raVars, abVars, pairVars, exVars>>

-----------------------------------------------------------------------------
(* readAll *)

NoCall == [called |-> FALSE, stream |-> Undefined, encArg |-> Undefined,
           enc |-> Undefined, buff |-> Undefined, completedInvoked |-> FALSE,
           listeners |-> {}, resolved |-> <<>>, rejected |-> <<>>, removeRuns |-> 0]

\* the stream arguments: no stream (null, undefined) or a readable stream
StreamArgs == {Null, Undefined, JsStream}
\* the enc arguments: absent, '', ' ', 'utf8', 'HEX ', 'latin1' and the unknown 'x'
EncArgs == {Undefined, JsStr(<<>>), JsStr(<<32>>), JsStr(EncUtf8),
            JsStr(<<72, 69, 88, 32>>), JsStr(EncLatin1), JsStr(<<120>>)}
\* the chunks of data events: empty and non-empty buffers, '', 'ab', U+00E9,
\* and (a stream in object mode) the number 5
DataChunks == {JsBuf(<<>>), JsBuf(<<1>>), JsBuf(<<2, 3>>), JsStr(<<>>),
               JsStr(<<97, 98>>), JsStr(<<233>>), JsNum(5)}
\* the payloads of error events: an Error, a string, nothing
ErrorPayloads == {JsErr(<<69, 49>>), JsStr(<<101>>), Undefined}
\* what attaching a listener may throw
AttachThrown == {JsErr(<<69, 50>>), Null}

\* vscode_helpers_events.tryRemoveListener(stream, ev, listener): removes the
\* listener, swallowing whatever the removal raises (there is nothing to call
\* on a nil stream)
tryRemoveListener(c, ev) ==
    IF IsNil(c.stream) THEN c ELSE [c EXCEPT !.listeners = @ \ {ev}]

\* COMPLETED settling the promise without "else": reject and resolve both run
COMPLETEDBothSettle(c, err) ==
    IF c.completedInvoked THEN c
    ELSE LET c1 == [c EXCEPT !.completedInvoked = TRUE, !.removeRuns = @ + 1]
             c2 == tryRemoveListener(
                       tryRemoveListener(tryRemoveListener(c1, "data"), "end"), "error")
         IN IF Truthy(err)
            THEN [c2 EXCEPT !.rejected = Append(@, err), !.resolved = Append(@, c2.buff)]
            ELSE [c2 EXCEPT !.resolved = Append(@, c2.buff)]

\* COMPLETED forgetting to remove the 'end' listener
COMPLETEDKeepsEnd(c, err) ==
    IF c.completedInvoked THEN c
    ELSE LET c1 == [c EXCEPT !.completedInvoked = TRUE, !.removeRuns = @ + 1]
             c2 == tryRemoveListener(tryRemoveListener(c1, "data"), "error")
         IN IF Truthy(err)
            THEN [c2 EXCEPT !.rejected = Append(@, err)]
            ELSE [c2 EXCEPT !.resolved = Append(@, c2.buff)]

\* const COMPLETED = (err) => { ... } of readAll
COMPLETED(c, err) ==
    IF c.completedInvoked THEN c
    ELSE LET c1 == [c EXCEPT !.completedInvoked = TRUE, !.removeRuns = @ + 1]
             c2 == tryRemoveListener(
                       tryRemoveListener(tryRemoveListener(c1, "data"), "end"), "error")
         IN IF Truthy(err)
            THEN [c2 EXCEPT !.rejected = Append(@, err)]
            ELSE [c2 EXCEPT !.resolved = Append(@, c2.buff)]

\* errorListener wrapping the payload in a new Error carrying its text
errorListenerWraps(c, err) ==
    IF Truthy(err) THEN COMPLETED(c, JsErr(toStringSafe(err))) ELSE c

\* errorListener = (err) => { if (err) COMPLETED(err); }
errorListener(c, err) == IF Truthy(err) THEN COMPLETED(c, err) ELSE c

\* chunk.length, where the chunk has one
HasLength(chunk) == chunk.kind \in {"buffer", "string", "array"}
LengthOf(chunk) ==
    CASE chunk.kind = "buffer" -> Len(chunk.bytes)
      [] chunk.kind = "string" -> Len(chunk.chars)
      [] chunk.kind = "array" -> Len(chunk.items)
      [] OTHER -> 0

\* Buffer.concat([ buff, chunk ]): throws unless both are buffers
BufferConcat(buff, chunk) ==
    IF IsBuffer(buff) /\ IsBuffer(chunk)
    THEN [ok |-> TRUE, value |-> JsBuf(buff.bytes \o chunk.bytes)]
    ELSE [ok |-> FALSE, value |-> NotABufferError]

\* dataListener putting the new chunk in front of the buffer
dataListenerPrepends(c, chunk) ==
    IF ~Truthy(chunk) \/ (HasLength(chunk) /\ LengthOf(chunk) < 1) THEN c
    ELSE LET made == IF IsString(chunk) THEN NewBuffer(chunk.chars, c.enc)
                     ELSE [ok |-> TRUE, value |-> chunk]
         IN IF ~made.ok THEN COMPLETED(c, made.value)
            ELSE LET cat == BufferConcat(made.value, c.buff)
                 IN IF cat.ok THEN [c EXCEPT !.buff = cat.value]
                    ELSE COMPLETED(c, cat.value)

\* dataListener = (chunk) => { try { ... } catch (e) { COMPLETED(e); } }
\* (undefined < 1 is false: a chunk without a length is not skipped)
dataListener(c, chunk) ==
    IF ~Truthy(chunk) \/ (HasLength(chunk) /\ LengthOf(chunk) < 1) THEN c
    ELSE LET made == IF IsString(chunk) THEN NewBuffer(chunk.chars, c.enc)
                     ELSE [ok |-> TRUE, value |-> chunk]
         IN IF ~made.ok THEN COMPLETED(c, made.value)
            ELSE LET cat == BufferConcat(c.buff, made.value)
                 IN IF cat.ok THEN [c EXCEPT !.buff = cat.value]
                    ELSE COMPLETED(c, cat.value)

\* an end listener that completes nothing
endListenerIgnores(c) == c

\* endListener = () => { COMPLETED(null); }
endListener(c) == COMPLETED(c, Null)

\* the try block attaching the listeners: throwAt = 1, 2, 3 makes the first,
\* second, third registration throw `thrown` (0: none throws)
Attach(c, throwAt, thrown) ==
    IF throwAt = 1 THEN COMPLETED(c, thrown)
    ELSE LET c1 == [c EXCEPT !.listeners = @ \cup {"error"}, !.buff = JsBuf(<<>>)]
         IN IF throwAt = 2 THEN COMPLETED(c1, thrown)
            ELSE LET c2 == [c1 EXCEPT !.listeners = @ \cup {"end"}]
                 IN IF throwAt = 3 THEN COMPLETED(c2, thrown)
                    ELSE [c2 EXCEPT !.listeners = @ \cup {"data"}]

\* readAll attaching listeners to whatever it is given, nil included
readAllBodyNoNilTest(stream, encArg, throwAt, thrown) ==
    Attach([NoCall EXCEPT !.called = TRUE, !.stream = stream, !.encArg = encArg,
                          !.enc = NormalizeEnc(encArg)], throwAt, thrown)

\* readAll(stream, enc) up to the return of the promise executor
readAllBody(stream, encArg, throwAt, thrown) ==
    LET c0 == [NoCall EXCEPT !.called = TRUE, !.stream = stream, !.encArg = encArg,
                             !.enc = NormalizeEnc(encArg)]
    IN IF IsNil(stream) THEN COMPLETED([c0 EXCEPT !.buff = stream], Null)
       ELSE Attach(c0, throwAt, thrown)

\* how many events the model lets the stream deliver
EventBound == IF ab.called THEN MaxStreamEvents ELSE MaxEvents

\* a caller calls readAll
ReadAll(stream, encArg, throwAt, thrown) ==
    /\ ~ra.called /\ ~ab.called /\ ~guard.created
    /\ pair.order = <<>> /\ ~ex.called
    /\ ra' = readAllBody(stream, encArg, throwAt, thrown)
    /\ UNCHANGED <<raHist, raLate, guardVars, abVars, pairVars, exVars>>

\* the stream emits 'data': delivered to the listener while it is attached
EmitData(chunk) ==
    /\ "data" \in ra.listeners
    /\ Len(raHist) < EventBound
    /\ ra' = dataListener(ra, chunk)
    /\ raHist' = Append(raHist, [ev |-> "data", arg |-> chunk])
    /\ UNCHANGED <<raLate, guardVars, abVars, pairVars, exVars>>

\* the stream emits 'end': the once() wrapper removes itself, then calls
EmitEnd ==
    /\ "end" \in ra.listeners
    /\ Len(raHist) < EventBound
    /\ ra' = endListener([ra EXCEPT !.listeners = @ \ {"end"}])
    /\ raHist' = Append(raHist, [ev |-> "end", arg |-> Undefined])
    /\ UNCHANGED <<raLate, guardVars, abVars, pairVars, exVars>>

\* the stream emits 'error'
EmitError(err) ==
    /\ "error" \in ra.listeners
    /\ Len(raHist) < EventBound
    /\ ra' = errorListener(ra, err)
    /\ raHist' = Append(raHist, [ev |-> "error", arg |-> err])
    /\ UNCHANGED <<raLate, guardVars, abVars, pairVars, exVars>>

\* the call's handlers can still observe events after COMPLETED ran: the call
\* attached its three listeners (an event reached it) and removing them is
\* best-effort
ObservesLate ==
    /\ ra.completedInvoked
    /\ raHist # <<>>
    /\ ~ab.called
    /\ Len(raHist) + Len(raLate) < EventBound

\* dataListener observes a data event after the call has completed
LateData(chunk) ==
    /\ ObservesLate
    /\ ra' = dataListener(ra, chunk)
    /\ raLate' = Append(raLate, [ev |-> "data", arg |-> chunk, before |-> ra])
    /\ UNCHANGED <<raHist, guardVars, abVars, pairVars, exVars>>

\* endListener, registered with once(), observes the stream's end after the
\* call has completed
LateEnd ==
    /\ ObservesLate
    /\ \A i \in 1..Len(raHist) : raHist[i].ev # "end"
    /\ \A i \in 1..Len(raLate) : raLate[i].ev # "end"
    /\ ra' = endListener(ra)
    /\ raLate' = Append(raLate, [ev |-> "end", arg |-> Undefined, before |-> ra])
    /\ UNCHANGED <<raHist, guardVars, abVars, pairVars, exVars>>

\* errorListener observes an error event after the call has completed
LateError(err) ==
    /\ ObservesLate
    /\ ra' = errorListener(ra, err)
    /\ raLate' = Append(raLate, [ev |-> "error", arg |-> err, before |-> ra])
    /\ UNCHANGED <<raHist, guardVars, abVars, pairVars, exVars>>

-----------------------------------------------------------------------------
(* asBuffer / asBufferInner *)

NoFrame == [called |-> FALSE, pc |-> "idle", val |-> Undefined, enc |-> Undefined,
            funcDepth |-> Null, maxDepth |-> Undefined,
            settled |-> "pending", result |-> Undefined]

\* ToNumber of the depth values: null is 0
ToNumber(v) == IF v.kind = "number" THEN v.num ELSE 0
\* isNaN(v) for undefined, null and integers: only undefined converts to NaN
IsNaN(v) == v.kind = "undefined"

\* `${maxDepth}`
DepthText(v) == IF v.kind = "number" THEN NumToString(v.num) ELSE <<110, 117, 108, 108>>

\* new Error(`Maximum depth of ${maxDepth} reached!`)
RecursionLimitError(maxDepth) ==
    JsErr(<<77, 97, 120, 105, 109, 117, 109, 32, 100, 101, 112, 116, 104, 32, 111, 102, 32>>
          \o DepthText(maxDepth) \o <<32, 114, 101, 97, 99, 104, 101, 100, 33>>)

\* what the function val returns (and Promise.resolve() then yields)
Invoke(val) == IF val.nest > 1 THEN JsFunc(val.nest - 1, val.term, val.promise) ELSE val.term

Resolve(f, v) == [f EXCEPT !.pc = "done", !.settled = "resolved", !.result = v]
Reject(f, e) == [f EXCEPT !.pc = "done", !.settled = "rejected", !.result = e]

\* resolve with new Buffer(text, enc), or reject with what the constructor throws
ResolveNewBuffer(f, text, enc) ==
    IF NewBuffer(text, enc).ok THEN Resolve(f, NewBuffer(text, enc).value)
    ELSE Reject(f, NewBuffer(text, enc).value)

\* "funcDepth >= maxDepth": the limit hit one level early
DepthExceededOffByOne(funcDepth, maxDepth) == ToNumber(funcDepth) >= ToNumber(maxDepth)

\* "if (funcDepth > maxDepth)"
DepthExceeded(funcDepth, maxDepth) == ToNumber(funcDepth) > ToNumber(maxDepth)

\* only nil returned as it is: a buffer goes on to the later tests
PassesThroughNilOnly(val) == IsNil(val)

\* "if (Buffer.isBuffer(val) || _.isNil(val))"
PassesThrough(val) == IsBuffer(val) \/ IsNil(val)

\* an isObject test that leaves arrays to the string branch
IsJsonObjectNoArrays(val) == IsObject(val) /\ val.kind # "array"

\* "if (_.isObject(val))"
IsJsonObject(val) == IsObject(val)

\* a string coercion that takes every falsy value, 0 and false included, as unset
SafeTextFalsyEmpty(val) == IF Truthy(val) THEN toStringSafe(val) ELSE <<>>

\* "toStringSafe(val)" of the last branch
SafeText(val) == toStringSafe(val)

\* one run of asBufferInner(val, enc, funcDepth, maxDepth) on the frame f, up to
\* its return or its first await:
\*   frame      the frame afterwards
\*   invoked    the arguments val(...) was called with, if it was called
\*   readsAll   whether readAll(val) was called
asBufferInner(f) ==
    LET enc == NormalizeEnc(f.enc)
        funcDepth == IF IsNaN(f.funcDepth) THEN JsNum(0) ELSE f.funcDepth
        maxDepth == IF IsNaN(f.maxDepth) THEN JsNum(DefaultMaxDepth) ELSE f.maxDepth
        g == [f EXCEPT !.enc = enc, !.funcDepth = funcDepth, !.maxDepth = maxDepth]
        quiet(fr) == [frame |-> fr, invoked |-> <<>>, readsAll |-> FALSE]
    IN IF DepthExceeded(funcDepth, maxDepth)
           THEN quiet(Reject(g, RecursionLimitError(maxDepth)))
       ELSE IF PassesThrough(f.val)
           THEN quiet(Resolve(g, f.val))
       ELSE IF IsFunction(f.val)
           THEN [frame |-> [g EXCEPT !.pc = "await", !.val = Invoke(f.val)],
                 invoked |-> <<[enc |-> enc, funcDepth |-> funcDepth,
                                maxDepth |-> maxDepth]>>,
                 readsAll |-> FALSE]
       ELSE IF IsReadable(f.val)
           THEN [frame |-> [g EXCEPT !.pc = "stream"], invoked |-> <<>>,
                 readsAll |-> TRUE]
       ELSE IF IsJsonObject(f.val)
           THEN quiet(ResolveNewBuffer(g, JSONStringify(f.val), enc))
       ELSE quiet(ResolveNewBuffer(g, SafeText(f.val), enc))

\* the values asBuffer is given as terminal values
Terminals ==
    {JsBuf(<<>>), JsBuf(<<1, 2>>), Null, Undefined,
     JsStr(<<>>), JsStr(<<97, 98>>), JsStr(<<233>>),
     JsNum(0), JsNum(12), JsNum(-3), JsBool(TRUE), JsBool(FALSE),
     JsArr(<<>>), JsArr(<<1, 2>>),
     JsObj("plain", <<>>, <<>>), JsObj("plain", <<<<97, 1>>>>, <<>>),
     JsObj("custom", <<<<97, 1>>>>, <<104, 105>>),
     JsObj("bare", <<<<97, 1>>, <<98, 20>>>>, <<>>),
     JsErr(<<69, 49>>)}

\* the maxDepth arguments: absent, null, -1 .. MaxDepthArg
MaxDepthArgs == {Undefined, Null} \cup {JsNum(m) : m \in -1..MaxDepthArg}

\* the calls of asBuffer the model makes: every terminal value and every short
\* chain of deferred values with every enc and maxDepth; a stream with every
\* enc; chains around the default depth with the default arguments
AsBufferInputs ==
    {[val |-> v, enc |-> e, maxDepth |-> m] :
        v \in Terminals, e \in EncArgs, m \in MaxDepthArgs}
    \cup {[val |-> JsFunc(n, t, p), enc |-> e, maxDepth |-> m] :
        n \in 1..MaxChain, t \in {JsBuf(<<1, 2>>), Null, JsStr(<<97, 98>>)},
        p \in BOOLEAN, e \in {Undefined, JsStr(<<72, 69, 88, 32>>)},
        m \in MaxDepthArgs}
    \cup {[val |-> JsStream, enc |-> e, maxDepth |-> Undefined] : e \in EncArgs}
    \cup {[val |-> JsFunc(n, JsBuf(<<1, 2>>), FALSE), enc |-> Undefined,
           maxDepth |-> Undefined] :
        n \in (DefaultMaxDepth - 1)..(DefaultMaxDepth + 2)}

\* readAll(val, enc): the encoding handed on with the stream
StreamEncArgForwarded(enc) == enc

\* "readAll(val)": the enc argument readAll gets from asBufferInner is absent
StreamEncArg(enc) == Undefined

\* asBuffer(val, enc, maxDepth): "asBufferInner(val, enc, null, maxDepth)"
AsBuffer(in) ==
    /\ ~ab.called /\ ~ra.called /\ ~guard.created
    /\ pair.order = <<>> /\ ~ex.called
    /\ ab' = [NoFrame EXCEPT !.called = TRUE, !.pc = "inner", !.val = in.val,
                             !.enc = in.enc, !.funcDepth = Null,
                             !.maxDepth = in.maxDepth]
    /\ abIn' = in
    /\ UNCHANGED <<abCalls, guardVars, raVars, pairVars, exVars>>

\* asBufferInner runs on the current frame; a stream is handed to readAll(val),
\* whose listener registrations may throw
AsBufferInner(throwAt, thrown) ==
    /\ ab.pc = "inner"
    /\ LET r == asBufferInner(ab)
       IN /\ ab' = r.frame
          /\ abCalls' = abCalls \o r.invoked
          /\ IF r.readsAll
             THEN ra' = readAllBody(ab.val, StreamEncArg(r.frame.enc), throwAt, thrown)
             ELSE throwAt = 0 /\ thrown = Null /\ ra' = ra
    /\ UNCHANGED <<abIn, raHist, raLate, guardVars, pairVars, exVars>>

\* the awaited promise of the deferred value is fulfilled: the recursive call
\* "asBufferInner(<value>, enc, funcDepth + 1, maxDepth)" starts
AsBufferResume ==
    /\ ab.pc = "await"
    /\ ab' = [ab EXCEPT !.pc = "inner",
                        !.funcDepth = JsNum(ToNumber(ab.funcDepth) + 1)]
    /\ UNCHANGED <<abIn, abCalls, guardVars, raVars, pairVars, exVars>>

\* "return await readAll(val)": the promise of readAll is settled
AsBufferStreamSettled ==
    /\ ab.pc = "stream"
    /\ ra.resolved # <<>> \/ ra.rejected # <<>>
    /\ ab' = IF ra.resolved # <<>> THEN Resolve(ab, ra.resolved[1])
             ELSE Reject(ab, ra.rejected[1])
    /\ UNCHANGED <<abIn, abCalls, guardVars, raVars, pairVars, exVars>>

-----------------------------------------------------------------------------
(* Two readAll calls *)

\* the two calls, and the streams they can be given
Calls == {1, 2}
Streams == {1, 2}

\* neither call made: no closure state, no stream, nothing delivered
NoPair == [calls |-> <<NoCall, NoCall>>, streamOf |-> <<0, 0>>,
           encOf |-> <<Undefined, Undefined>>, hist |-> <<<<>>, <<>>>>,
           order |-> <<>>, emitted |-> 0]

\* completedInvoked declared outside the promise executor: one flag for all calls
OnCallSharedFlag(cs, i, c) ==
    [j \in {1, 2} |-> IF j = i THEN c
                      ELSE [cs[j] EXCEPT !.completedInvoked = c.completedInvoked]]

\* buff, completedInvoked, COMPLETED and the three listeners are declared
\* inside the promise executor of the call: a step of call i assigns only
\* the variables of call i
OnCall(cs, i, c) == [j \in {1, 2} |-> IF j = i THEN c ELSE cs[j]]

\* the listener of a call for an event is invoked with the event's argument;
\* a once() listener is detached before it runs
Deliver(c, ev, arg) ==
    CASE ev = "data" -> dataListener(c, arg)
      [] ev = "end" -> endListener([c EXCEPT !.listeners = @ \ {"end"}])
      [] ev = "error" -> errorListener(c, arg)

\* the calls listening for ev on a stream, in the order they registered
ListenersOf(p, sid, ev) ==
    SelectSeq(p.order, LAMBDA i : p.streamOf[i] = sid /\ ev \in p.calls[i].listeners)

\* stream.emit(ev, arg): every listener registered when emit began is invoked
RECURSIVE EmitTo(_, _, _, _)
EmitTo(p, ids, ev, arg) ==
    IF ids = <<>> THEN p
    ELSE LET i == Head(ids)
             q == [p EXCEPT !.calls = OnCall(@, i, Deliver(p.calls[i], ev, arg)),
                            !.hist[i] = Append(@, [ev |-> ev, arg |-> arg])]
         IN EmitTo(q, Tail(ids), ev, arg)

\* call i: readAll(stream sid, encArg)
PairReadAll(i, sid, encArg) ==
    /\ ~guard.created /\ ~ra.called /\ ~ab.called /\ ~ex.called
    /\ pair.streamOf[i] = 0
    /\ pair' = [pair EXCEPT !.calls = OnCall(@, i, readAllBody(JsStream, encArg, 0, Null)),
                            !.streamOf[i] = sid,
                            !.encOf[i] = encArg,
                            !.order = Append(@, i)]
    /\ UNCHANGED <<guardVars, raVars, abVars, exVars>>

\* a stream emits an event to the calls listening on it
PairEmit(sid, ev, arg) ==
    /\ ListenersOf(pair, sid, ev) # <<>>
    /\ pair.emitted < MaxPairEvents
    /\ pair' = [EmitTo(pair, ListenersOf(pair, sid, ev), ev, arg)
                   EXCEPT !.emitted = @ + 1]
    /\ UNCHANGED <<guardVars, raVars, abVars, exVars>>

PairEmitData(sid, chunk) == PairEmit(sid, "data", chunk)
PairEmitEnd(sid) == PairEmit(sid, "end", Undefined)
PairEmitError(sid, err) == PairEmit(sid, "error", err)

\* the chunks, error payloads and enc arguments of the two calls
PairChunks == {JsBuf(<<1>>), JsStr(<<97>>)}
PairErrors == {JsErr(<<69, 49>>)}
PairEncArgs == {Undefined, JsStr(<<120>>)}

-----------------------------------------------------------------------------
(* execFile *)

\* toBooleanSafe(val, defaultVal)
toBooleanSafe(val, defaultVal) ==
    IF val.kind = "boolean" THEN val.bool
    ELSE IF IsNil(val) THEN defaultVal
    ELSE Truthy(val)

\* the elements of an array value
ArrayElems(val) ==
    IF "elems" \in DOMAIN val THEN val.elems
    ELSE [i \in 1..Len(val.items) |-> JsNum(val.items[i])]

\* asArray(val, removeEmpty)
asArray(val, removeEmpty) ==
    LET RemoveEmpty == toBooleanSafe(removeEmpty, TRUE)
        arr == IF val.kind = "array" THEN ArrayElems(val) ELSE <<val>>
    IN SelectSeq(arr, LAMBDA i : IF RemoveEmpty THEN ~IsNil(i) ELSE TRUE)

\* args = asArray(args, false).map(a => toStringSafe(a))
NormalizeArgs(args) ==
    LET arr == asArray(args, JsBool(FALSE))
    IN [i \in 1..Len(arr) |-> JsStr(toStringSafe(arr[i]))]

\* the ChildProcess the launcher returns
ProcessHandle == [kind |-> "process"]

\* RESULT = { stdErr: undefined, stdOut: undefined, process: undefined }
NoResult == [stdErr |-> Undefined, stdOut |-> Undefined, process |-> Undefined]

\* no call made
NoExec == [called |-> FALSE, argsIn |-> Undefined, args |-> <<>>,
           launchThrown |-> <<>>, P |-> Undefined, callbacks |-> <<>>,
           completedInvoked |-> FALSE, resolved |-> <<>>, rejected |-> <<>>,
           RESULT |-> NoResult, tasks |-> <<>>]

\* COMPLETED without its completedInvoked test
ExecCOMPLETEDNoFlag(x, err) ==
    IF Truthy(err) THEN [x EXCEPT !.rejected = Append(@, err)]
    ELSE [x EXCEPT !.resolved = Append(@, x.RESULT)]

\* const COMPLETED = (err) => { ... }: resolve(RESULT) hands over the result
\* as it is at that moment
ExecCOMPLETED(x, err) ==
    IF x.completedInvoked THEN x
    ELSE IF Truthy(err)
         THEN [x EXCEPT !.completedInvoked = TRUE, !.rejected = Append(@, err)]
         ELSE [x EXCEPT !.completedInvoked = TRUE, !.resolved = Append(@, x.RESULT)]

\* asBufferInner run to its end on a value that is no stream
RECURSIVE RunFrame(_)
RunFrame(f) ==
    LET g == asBufferInner(f).frame
    IN IF g.pc = "await"
       THEN RunFrame([g EXCEPT !.pc = "inner",
                               !.funcDepth = JsNum(ToNumber(g.funcDepth) + 1)])
       ELSE g

\* asBuffer(raw, 'utf8'): the frame it ends with (settled, result)
NormalizeOutput(raw) ==
    RunFrame([NoFrame EXCEPT !.called = TRUE, !.pc = "inner", !.val = raw,
                             !.enc = JsStr(EncUtf8), !.funcDepth = Null,
                             !.maxDepth = Undefined])

\* the async function of the callback, suspended at its first await
NewTask(stdout, stderr) ==
    [pc |-> "stderr", stdout |-> stdout, stderr |-> stderr, failed |-> <<>>]

\* a callback that captures the process handle and starts the normalization
\* before it looks at err
execCallbackPopulatesFirst(x, err, stdout, stderr) ==
    LET y == [x EXCEPT !.RESULT.process = x.P,
                       !.tasks = Append(@, NewTask(stdout, stderr))]
    IN IF Truthy(err) THEN ExecCOMPLETED(y, err) ELSE y

\* (err, stdout, stderr) => { ... }: the callback handed to the launcher
execCallback(x, err, stdout, stderr) ==
    IF Truthy(err) THEN ExecCOMPLETED(x, err)
    ELSE [x EXCEPT !.RESULT.process = x.P,
                   !.tasks = Append(@, NewTask(stdout, stderr))]

\* "RESULT.stdErr = await asBuffer(stderr, 'utf8')" resumes in task t; a
\* rejection ends the async function there
taskStdErr(x, t) ==
    LET f == NormalizeOutput(x.tasks[t].stderr)
    IN IF f.settled = "resolved"
       THEN [x EXCEPT !.RESULT.stdErr = f.result, !.tasks[t].pc = "stdout"]
       ELSE [x EXCEPT !.tasks[t].pc = "settle", !.tasks[t].failed = <<f.result>>]

\* "RESULT.stdOut = await asBuffer(stdout, 'utf8')" resumes in task t
taskStdOut(x, t) ==
    LET f == NormalizeOutput(x.tasks[t].stdout)
    IN IF f.settled = "resolved"
       THEN [x EXCEPT !.RESULT.stdOut = f.result, !.tasks[t].pc = "settle"]
       ELSE [x EXCEPT !.tasks[t].pc = "settle", !.tasks[t].failed = <<f.result>>]

\* a then() that completes successfully whatever the async function did
taskSettledSwallows(x, t) ==
    ExecCOMPLETED([x EXCEPT !.tasks[t].pc = "done"], Null)

\* .then(() => { COMPLETED(null); }, (err) => { COMPLETED(err); })
taskSettled(x, t) ==
    LET y == [x EXCEPT !.tasks[t].pc = "done"]
    IN IF x.tasks[t].failed = <<>> THEN ExecCOMPLETED(y, Null)
       ELSE ExecCOMPLETED(y, x.tasks[t].failed[1])

\* the args arguments: absent, null, [], ['a', null, 5], [undefined, 'b']
ArgInputs ==
    {Undefined, Null, JsArrOf(<<>>),
     JsArrOf(<<JsStr(<<97>>), Null, JsNum(5)>>),
     JsArrOf(<<Undefined, JsStr(<<98>>)>>)}
\* what the launcher throws: nothing (null here) or an error
LaunchOutcomes == {Null, JsErr(<<69, 51>>)}
\* the err of a callback that reports an execution error, and the output
\* collected until then
ExecutionErrors == {JsErr(<<69, 52>>)}
PartialOutput == JsStr(<<97>>)
\* the raw outputs of a callback: strings, buffers, and a value whose
\* normalization fails (a chain of deferred values deeper than the default
\* maximum depth)
UnnormalizableOutput == JsFunc(DefaultMaxDepth + 1, JsBuf(<<>>), FALSE)
RawOutputs ==
    {[stdout |-> JsStr(<<97, 98>>), stderr |-> JsBuf(<<1>>)],
     [stdout |-> JsBuf(<<2>>), stderr |-> JsStr(<<>>)],
     [stdout |-> JsStr(<<97, 98>>), stderr |-> UnnormalizableOutput],
     [stdout |-> UnnormalizableOutput, stderr |-> JsStr(<<101>>)]}

\* execFile(command, args): the arguments are normalized and the launcher is
\* called; it throws `thrown` or (thrown = null) returns the process
ExecFile(args, thrown) ==
    /\ ~ex.called /\ ~guard.created /\ ~ra.called /\ ~ab.called
    /\ pair.order = <<>>
    /\ LET x == [NoExec EXCEPT !.called = TRUE, !.argsIn = args,
                               !.args = NormalizeArgs(args)]
       IN ex' = IF IsNil(thrown) THEN [x EXCEPT !.P = ProcessHandle]
                ELSE ExecCOMPLETED([x EXCEPT !.launchThrown = <<thrown>>], thrown)
    /\ UNCHANGED <<guardVars, raVars, abVars, pairVars>>

\* the launcher invokes the callback
ExecCallback(err, stdout, stderr) ==
    /\ ex.called /\ ex.launchThrown = <<>>
    /\ Len(ex.callbacks) < MaxCallbacks
    /\ ex' = [execCallback(ex, err, stdout, stderr)
                 EXCEPT !.callbacks = Append(@, [err |-> err, stdout |-> stdout,
                                                 stderr |-> stderr])]
    /\ UNCHANGED <<guardVars, raVars, abVars, pairVars>>

\* the awaited normalization of the standard error of task t is settled
ExecStdErr(t) ==
    /\ t \in 1..Len(ex.tasks) /\ ex.tasks[t].pc = "stderr"
    /\ ex' = taskStdErr(ex, t)
    /\ UNCHANGED <<guardVars, raVars, abVars, pairVars>>

\* the awaited normalization of the standard output of task t is settled
ExecStdOut(t) ==
    /\ t \in 1..Len(ex.tasks) /\ ex.tasks[t].pc = "stdout"
    /\ ex' = taskStdOut(ex, t)
    /\ UNCHANGED <<guardVars, raVars, abVars, pairVars>>

\* the promise of the async function of task t is settled
ExecTaskSettled(t) ==
    /\ t \in 1..Len(ex.tasks) /\ ex.tasks[t].pc = "settle"
    /\ ex' = taskSettled(ex, t)
    /\ UNCHANGED <<guardVars, raVars, abVars, pairVars>>

-----------------------------------------------------------------------------
(* Specifications *)

Init ==
    /\ guard = NoGuard
    /\ guardCalls = <<>>
    /\ ra = NoCall
    /\ raHist = <<>>
    /\ raLate = <<>>
    /\ ab = NoFrame
    /\ abIn = [val |-> Undefined, enc |-> Undefined, maxDepth |-> Undefined]
    /\ abCalls = <<>>
    /\ pair = NoPair
    /\ ex = NoExec

\* a completed-action is created and called
NextGuard ==
    \/ \E r \in BOOLEAN, j \in BOOLEAN : CreateCompletedAction(r, j)
    \/ \E e \in GuardErrs, r \in GuardResults : CompletedAction(e, r)

SpecGuard == Init /\ [][NextGuard]_vars

\* readAll is called and its stream delivers events
NextReadAll ==
    \/ \E s \in StreamArgs, e \in EncArgs, t \in 0..3, x \in AttachThrown :
          ReadAll(s, e, t, x)
    \/ \E c \in DataChunks : EmitData(c)
    \/ EmitEnd
    \/ \E e \in ErrorPayloads : EmitError(e)

SpecReadAll == Init /\ [][NextReadAll]_vars

\* the chunks, error payloads and enc arguments of the calls whose handlers
\* are followed beyond completion
LateChunks == {JsBuf(<<1>>), JsStr(<<97, 98>>), JsStr(<<>>)}
LateErrors == {JsErr(<<69, 49>>), Undefined}
LateEncArgs == {Undefined, JsStr(<<120>>)}

\* readAll is called, its stream delivers events, and its handlers observe
\* further events after the call has completed
NextLate ==
    \/ \E s \in StreamArgs, e \in LateEncArgs : ReadAll(s, e, 0, Null)
    \/ \E c \in LateChunks : EmitData(c)
    \/ EmitEnd
    \/ \E e \in LateErrors : EmitError(e)
    \/ \E c \in LateChunks : LateData(c)
    \/ LateEnd
    \/ \E e \in LateErrors : LateError(e)

SpecLate == Init /\ [][NextLate]_vars

\* a data or error event of a stream that has not ended yet: the last event
\* the stream may deliver is left to end
EmitDataBeforeEnd(chunk) == Len(raHist) < EventBound - 1 /\ EmitData(chunk)
EmitErrorBeforeEnd(err) == Len(raHist) < EventBound - 1 /\ EmitError(err)

\* readAll is called on a stream that delivers events and eventually ends
NextReadAllFair ==
    \/ \E s \in StreamArgs, e \in EncArgs, t \in 0..3, x \in AttachThrown :
          ReadAll(s, e, t, x)
    \/ \E c \in DataChunks : EmitDataBeforeEnd(c)
    \/ \E e \in ErrorPayloads : EmitErrorBeforeEnd(e)
    \/ EmitEnd

\* the stream is not held back for ever: while the end listener is attached,
\* end is eventually delivered
StreamEnds == WF_vars(EmitEnd)

SpecReadAllFair == Init /\ [][NextReadAllFair]_vars /\ StreamEnds

\* asBuffer is called; a stream it is given delivers events
NextAsBuffer ==
    \/ \E in \in AsBufferInputs : AsBuffer(in)
    \/ \E t \in 0..3, x \in AttachThrown : AsBufferInner(t, x)
    \/ AsBufferResume
    \/ AsBufferStreamSettled
    \/ \E c \in DataChunks : EmitData(c)
    \/ EmitEnd
    \/ \E e \in ErrorPayloads : EmitError(e)

SpecAsBuffer == Init /\ [][NextAsBuffer]_vars

\* readAll or asBuffer is called, each with every enc argument
NextEnc == NextReadAll \/ NextAsBuffer

SpecEnc == Init /\ [][NextEnc]_vars

\* two readAll calls are made, on the same stream or on two, and the streams
\* deliver events
NextPair ==
    \/ \E i \in Calls, sid \in Streams, e \in PairEncArgs : PairReadAll(i, sid, e)
    \/ \E sid \in Streams, c \in PairChunks : PairEmitData(sid, c)
    \/ \E sid \in Streams : PairEmitEnd(sid)
    \/ \E sid \in Streams, e \in PairErrors : PairEmitError(sid, e)

SpecPair == Init /\ [][NextPair]_vars

\* execFile is called; the launcher invokes the callback, and the
\* normalizations the callbacks start go on
NextExec ==
    \/ \E a \in ArgInputs, e \in LaunchOutcomes : ExecFile(a, e)
    \/ \E o \in RawOutputs : ExecCallback(Null, o.stdout, o.stderr)
    \/ \E e \in ExecutionErrors : ExecCallback(e, PartialOutput, PartialOutput)
    \/ \E t \in 1..MaxCallbacks : ExecStdErr(t)
    \/ \E t \in 1..MaxCallbacks : ExecStdOut(t)
    \/ \E t \in 1..MaxCallbacks : ExecTaskSettled(t)

SpecExec == Init /\ [][NextExec]_vars

\* one of the operations runs: they share no state
Next == NextGuard \/ NextReadAll \/ NextAsBuffer \/ NextLate \/ NextPair \/ NextExec

Spec == Init /\ [][Next]_vars

-----------------------------------------------------------------------------
(* Properties of createCompletedAction *)

\* C1: for a completed-action built from a success and a failure callback, only
\* the first call has an effect: the failure callback gets its error when that
\* error is truthy, otherwise the success callback gets its result; no later
\* call invokes a callback, so at most one callback is invoked, at most once.
C1_OnlyFirstCallCounts ==
    (guard.created /\ guard.resolve /\ guard.reject) =>
        IF guardCalls = <<>>
        THEN guard.resolved = <<>> /\ guard.rejected = <<>>
        ELSE IF Truthy(guardCalls[1][1])
             THEN guard.rejected = <<guardCalls[1][1]>> /\ guard.resolved = <<>>
             ELSE guard.resolved = <<guardCalls[1][2]>> /\ guard.rejected = <<>>

\* a first call with an error, then a call without one: only the failure
\* callback has run
C1_Witness ==
    /\ guard.created /\ guard.resolve /\ guard.reject
    /\ Len(guardCalls) = 2
    /\ Truthy(guardCalls[1][1])
    /\ ~Truthy(guardCalls[2][1])
    /\ guard.rejected = <<guardCalls[1][1]>>
    /\ guard.resolved = <<>>

-----------------------------------------------------------------------------
(* Properties of readAll *)

\* the events of the history h of the given kind
EventsOf(h, kind) == {i \in 1..Len(h) : h[i].ev = kind}

\* the bytes a chunk adds to the buffer: nothing for an empty chunk, the
\* bytes of a buffer, the encoding under enc of a string
ChunkBytes(chunk, enc) ==
    IF chunk.kind = "buffer" THEN chunk.bytes
    ELSE IF chunk.kind = "string" THEN Encode(chunk.chars, enc)
    ELSE <<>>

RECURSIVE DataBytes(_, _)
\* the bytes of the data events of h, in the order of delivery
DataBytes(h, enc) ==
    IF h = <<>> THEN <<>>
    ELSE (IF Head(h).ev = "data" THEN ChunkBytes(Head(h).arg, enc) ELSE <<>>)
         \o DataBytes(Tail(h), enc)

\* the encoding readAll uses for an enc argument: the default one for an
\* absent or blank argument
UsedEnc(encArg) ==
    IF encArg.kind # "string" \/ Trim(encArg.chars) = <<>> THEN Undefined
    ELSE JsStr(Trim(ToLowerCase(encArg.chars)))

\* C2: the promise of one readAll call is settled at most once, whatever the
\* stream delivers: never resolved and rejected, never resolved or rejected twice.
C2_SettledAtMostOnce == Len(ra.resolved) + Len(ra.rejected) <= 1

\* the promise is settled after three events, data and error among them
C2_Witness ==
    /\ Len(ra.resolved) + Len(ra.rejected) = 1
    /\ Len(raHist) >= 3
    /\ EventsOf(raHist, "data") # {}
    /\ EventsOf(raHist, "error") # {}

\* C3: when a readAll call on a stream completes, by whatever path, its three
\* listeners are off the stream, and the deregistration step has run exactly
\* once (and it never runs twice).
C3_ListenersRemovedOnce ==
    /\ ra.removeRuns <= 1
    /\ (ra.called /\ ~IsNil(ra.stream) /\ ra.completedInvoked) =>
           ra.listeners = {} /\ ra.removeRuns = 1
    /\ (ra.resolved # <<>> \/ ra.rejected # <<>>) => ra.completedInvoked

\* the call failed on an error event, the stream never ended, nothing is attached
C3_Witness ==
    /\ ra.called /\ ~IsNil(ra.stream)
    /\ ra.rejected # <<>>
    /\ EventsOf(raHist, "error") # {}
    /\ EventsOf(raHist, "end") = {}
    /\ EventsOf(raHist, "data") # {}
    /\ ra.listeners = {}
    /\ ra.removeRuns = 1

\* the stream delivered only chunks that are buffers or strings, which the
\* encoding can take, and then end
ChunksThenEnd(h, enc) ==
    /\ h # <<>>
    /\ h[Len(h)].ev = "end"
    /\ \A i \in 1..(Len(h) - 1) :
          /\ h[i].ev = "data"
          /\ h[i].arg.kind \in {"buffer", "string"}
          /\ (h[i].arg.kind = "string" /\ h[i].arg.chars # <<>>) => EncodingOk(enc)

\* C4: for a stream that delivers chunks (buffers, or strings the encoding can
\* take) and then end, readAll resolves with the concatenation of the non-empty
\* chunks in the order of delivery, strings encoded to bytes: nothing dropped,
\* duplicated or reordered, and empty chunks add nothing.
C4_ConcatenatesInOrder ==
    ChunksThenEnd(raHist, UsedEnc(ra.encArg)) =>
        /\ ra.resolved = <<JsBuf(DataBytes(raHist, UsedEnc(ra.encArg)))>>
        /\ ra.rejected = <<>>

\* "ab" then an empty chunk then the bytes 2, 3 then end: resolved with
\* the bytes of "ab" followed by 2, 3
C4_Witness ==
    /\ Len(raHist) = 4
    /\ raHist[1] = [ev |-> "data", arg |-> JsStr(<<97, 98>>)]
    /\ raHist[2] = [ev |-> "data", arg |-> JsBuf(<<>>)]
    /\ raHist[3] = [ev |-> "data", arg |-> JsBuf(<<2, 3>>)]
    /\ raHist[4].ev = "end"
    /\ ra.encArg = Undefined
    /\ ra.resolved = <<JsBuf(<<97, 98, 2, 3>>)>>

\* the first error event of h, if that comes before every end event
FirstErrorBeforeEnd(h) ==
    {i \in EventsOf(h, "error") :
        \A j \in 1..(i - 1) : h[j].ev \notin {"error", "end"}}

\* C5 as stated: once the stream has emitted an error event before end, the
\* call is rejected with the payload of that event, whatever the payload is,
\* and is not resolved.
C5_AnyPayloadRejects ==
    \A i \in FirstErrorBeforeEnd(raHist) :
        ra.rejected = <<raHist[i].arg>> /\ ra.resolved = <<>>

\* the first error event of h with a truthy payload, if no end comes before it
FirstTruthyError(h) ==
    {i \in EventsOf(h, "error") :
        /\ Truthy(h[i].arg)
        /\ \A j \in 1..(i - 1) :
              h[j].ev # "end" /\ (h[j].ev = "error" => ~Truthy(h[j].arg))}

\* C5, amended: an error event with a truthy payload rejects the call with
\* exactly that payload, and the call is never resolved, whatever follows; an
\* error event with a falsy payload settles nothing.
C5_TruthyPayloadRejects ==
    /\ \A i \in FirstTruthyError(raHist) :
          ra.rejected = <<raHist[i].arg>> /\ ra.resolved = <<>>
    /\ (raHist # <<>> /\ \A i \in 1..Len(raHist) :
            raHist[i].ev = "error" /\ ~Truthy(raHist[i].arg))
       => (ra.rejected = <<>> /\ ra.resolved = <<>> /\ ~ra.completedInvoked)

\* a chunk, an error event without payload, then an error event carrying a
\* string: rejected with that string itself
C5_Witness ==
    /\ Len(raHist) = 3
    /\ raHist[1].ev = "data"
    /\ raHist[2] = [ev |-> "error", arg |-> Undefined]
    /\ raHist[3] = [ev |-> "error", arg |-> JsStr(<<101>>)]
    /\ ra.rejected = <<JsStr(<<101>>)>>
    /\ ra.resolved = <<>>

\* C6: readAll of a nil stream resolves at once with that same nil value,
\* never rejects, and attaches no listener.
C6_NilStream ==
    (ra.called /\ IsNil(ra.stream)) =>
        /\ ra.resolved = <<ra.stream>>
        /\ ra.rejected = <<>>
        /\ ra.listeners = {}
        /\ raHist = <<>>

\* readAll(null) has resolved with null
C6_Witness ==
    /\ ra.called
    /\ ra.stream = Null
    /\ ra.resolved = <<Null>>
    /\ ra.listeners = {}

-----------------------------------------------------------------------------
(* Properties of asBuffer *)

\* the maxDepth argument is absent, null or not negative: the outermost call
\* is within the limit
DepthAllowsCall(arg) == arg.kind # "number" \/ arg.num >= 0

\* the maximum depth M a maxDepth argument stands for, absent or a number
DepthLimit(arg) == IF arg.kind = "number" THEN arg.num ELSE DefaultMaxDepth

Min(a, b) == IF a < b THEN a ELSE b

\* C7: for a maximum depth M >= 0 (63 when maxDepth is absent) and a chain of n
\* nested deferred-value functions ending in a buffer b, asBuffer resolves with
\* b when n <= M and rejects with the recursion-limit error when n > M; the
\* chain is followed no deeper than the limit allows.
C7_ChainWithinDepth ==
    (/\ ab.pc = "done"
     /\ abIn.val.kind = "function"
     /\ IsBuffer(abIn.val.term)
     /\ abIn.maxDepth.kind \in {"undefined", "number"}
     /\ DepthAllowsCall(abIn.maxDepth)) =>
        LET n == abIn.val.nest
            M == DepthLimit(abIn.maxDepth)
        IN /\ Len(abCalls) = Min(n, M + 1)
           /\ IF n <= M
              THEN ab.settled = "resolved" /\ ab.result = abIn.val.term
              ELSE /\ ab.settled = "rejected"
                   /\ ab.result = RecursionLimitError(JsNum(M))

\* 64 nested functions and no maxDepth: rejected after the 64 invocations that
\* the depths 0 .. 63 allow
C7_Witness ==
    /\ ab.pc = "done"
    /\ abIn.val.kind = "function"
    /\ abIn.val.nest = DefaultMaxDepth + 1
    /\ abIn.maxDepth = Undefined
    /\ ab.settled = "rejected"
    /\ Len(abCalls) = DefaultMaxDepth + 1

\* C8 as stated: a buffer or nil comes back as it is, whatever enc and
\* maxDepth are, and the call never fails.
C8_AnyArguments ==
    (ab.pc = "done" /\ (IsBuffer(abIn.val) \/ IsNil(abIn.val))) =>
        ab.settled = "resolved" /\ ab.result = abIn.val

\* C8, amended: a buffer or nil comes back as it is, whatever enc is, for every
\* maxDepth that is absent, null or not negative.
C8_NonNegativeDepth ==
    (/\ ab.pc = "done"
     /\ IsBuffer(abIn.val) \/ IsNil(abIn.val)
     /\ DepthAllowsCall(abIn.maxDepth)) =>
        ab.settled = "resolved" /\ ab.result = abIn.val

\* a buffer given with the unknown encoding 'x' and maxDepth 0 has come back
C8_Witness ==
    /\ ab.pc = "done"
    /\ abIn.val = JsBuf(<<1, 2>>)
    /\ abIn.enc = JsStr(<<120>>)
    /\ abIn.maxDepth = JsNum(0)
    /\ ab.settled = "resolved"
    /\ ab.result = JsBuf(<<1, 2>>)

\* the structured objects: plain objects, arrays and errors (no buffer, no
\* function, no stream)
IsStructured(v) == v.kind \in {"object", "array", "error"}

\* C9: a structured object that is no buffer, function or stream is resolved
\* to the buffer holding its JSON serialization, encoded with the encoding in
\* use (as text, that is exactly the JSON serialization); its string coercion
\* is not used.
C9_ObjectsAsJson ==
    (/\ ab.pc = "done"
     /\ IsStructured(abIn.val)
     /\ DepthAllowsCall(abIn.maxDepth)
     /\ EncodingOk(UsedEnc(abIn.enc))) =>
        /\ ab.settled = "resolved"
        /\ ab.result = JsBuf(Encode(JSONStringify(abIn.val), UsedEnc(abIn.enc)))
        /\ (UsedEnc(abIn.enc) \in {Undefined, JsStr(EncUtf8), JsStr(EncLatin1)}) =>
               Utf8Decode(ab.result.bytes) = JSONStringify(abIn.val)

\* an object with the property a: 1 and a toString of its own returning "hi"
\* is resolved to {"a":1}
C9_Witness ==
    /\ ab.pc = "done"
    /\ abIn.val = JsObj("custom", <<<<97, 1>>>>, <<104, 105>>)
    /\ abIn.enc = Undefined
    /\ ab.settled = "resolved"
    /\ ab.result = JsBuf(<<123, 34, 97, 34, 58, 49, 125>>)

\* the text String(v) of a primitive or an array
CoercedText(v) ==
    CASE v.kind = "string" -> v.chars
      [] v.kind = "number" -> NumToString(v.num)
      [] v.kind = "boolean" ->
            IF v.bool THEN <<116, 114, 117, 101>> ELSE <<102, 97, 108, 115, 101>>
      [] v.kind = "array" -> Join(v.items)
      [] OTHER -> <<>>

-----------------------------------------------------------------------------
(* Properties of the enc parameter *)

\* an enc argument is absent or blank
IsBlankEnc(encArg) == encArg.kind # "string" \/ Trim(encArg.chars) = <<>>

\* the enc argument as the caller wrote it, absent when it is blank
VerbatimEnc(encArg) == IF IsBlankEnc(encArg) THEN Undefined ELSE encArg

\* the encoding of a call: the one readAll keeps for its data listener, the
\* one asBufferInner has normalised once it has run
EncOfReadAll == ra.enc
EncOfAsBuffer == ab.enc

\* C11 as stated: an absent or blank enc selects the default encoding, and
\* every other enc reaches the byte-encoding step character for character as
\* the caller supplied it.
C11_EncVerbatim ==
    /\ (ra.called /\ ~ab.called) => EncOfReadAll = VerbatimEnc(ra.encArg)
    /\ (ab.called /\ ab.pc # "inner") => EncOfAsBuffer = VerbatimEnc(abIn.enc)

\* C11, amended: an absent or blank enc selects the default encoding, and
\* every other enc reaches the byte-encoding step lower-cased and without its
\* leading and trailing white space, not validated.
C11_EncLowerCasedTrimmed ==
    /\ (ra.called /\ ~ab.called) =>
          /\ EncOfReadAll = UsedEnc(ra.encArg)
          /\ IsBlankEnc(ra.encArg) => EncOfReadAll = Undefined
          /\ ra.encArg = JsStr(<<72, 69, 88, 32>>) => EncOfReadAll = JsStr(EncHex)
          /\ ra.encArg = JsStr(<<120>>) => EncOfReadAll = JsStr(<<120>>)
    /\ (ab.called /\ ab.pc # "inner") =>
          /\ EncOfAsBuffer = UsedEnc(abIn.enc)
          /\ IsBlankEnc(abIn.enc) => EncOfAsBuffer = Undefined
          /\ abIn.enc = JsStr(<<72, 69, 88, 32>>) => EncOfAsBuffer = JsStr(EncHex)
          /\ abIn.enc = JsStr(<<120>>) => EncOfAsBuffer = JsStr(<<120>>)

\* asBuffer('ab', 'HEX ') has encoded the string as hex: the one byte 0xAB
C11_Witness ==
    /\ ab.pc = "done"
    /\ abIn.val = JsStr(<<97, 98>>)
    /\ abIn.enc = JsStr(<<72, 69, 88, 32>>)
    /\ ab.enc = JsStr(EncHex)
    /\ ab.settled = "resolved"
    /\ ab.result = JsBuf(<<171>>)

-----------------------------------------------------------------------------
(* Properties of the deferred-value calls *)

\* the maxDepth every function of the chain is given
PassedMaxDepth(arg) == IF arg.kind = "undefined" THEN JsNum(DefaultMaxDepth) ELSE arg

\* C18: the k-th function of a deferred-value chain (k = 0 for the outermost)
\* is invoked once, with the encoding in use, currentDepth = k and maxDepth,
\* and the recursion goes on with depth k + 1 and the same enc and maxDepth.
C18_DepthArgumentIsK ==
    /\ \A k \in 0..(Len(abCalls) - 1) :
          abCalls[k + 1] = [enc |-> UsedEnc(abIn.enc), funcDepth |-> JsNum(k),
                            maxDepth |-> PassedMaxDepth(abIn.maxDepth)]
    /\ (ab.pc = "inner" /\ abCalls # <<>>) =>
          /\ ab.funcDepth = JsNum(Len(abCalls))
          /\ ab.enc = UsedEnc(abIn.enc)
          /\ ab.maxDepth = PassedMaxDepth(abIn.maxDepth)

\* C20: asBuffer of a readable stream with an encoding e is readAll of that
\* stream with no encoding: e is not handed on, string chunks are encoded with
\* the default encoding, and the result does not depend on e.
C20_StreamIgnoresEnc ==
    (ab.called /\ IsReadable(abIn.val) /\ ra.called) =>
        /\ ra.encArg = Undefined
        /\ ra.enc = Undefined
        /\ ra.stream = abIn.val
        /\ ab.pc = "done" =>
              /\ ab.settled = "resolved" =>
                    /\ ra.resolved = <<ab.result>>
                    /\ ChunksThenEnd(raHist, Undefined) =>
                          ab.result = JsBuf(DataBytes(raHist, Undefined))
              /\ ab.settled = "rejected" => ra.rejected = <<ab.result>>

\* asBuffer(stream, 'HEX ') of a stream delivering 'ab' and end: the bytes of
\* 'ab' in utf8, not the hex byte 0xAB
C20_Witness ==
    /\ ab.pc = "done"
    /\ IsReadable(abIn.val)
    /\ abIn.enc = JsStr(<<72, 69, 88, 32>>)
    /\ raHist = <<[ev |-> "data", arg |-> JsStr(<<97, 98>>)],
                  [ev |-> "end", arg |-> Undefined]>>
    /\ ab.settled = "resolved"
    /\ ab.result = JsBuf(<<97, 98>>)

-----------------------------------------------------------------------------
(* Termination of readAll *)

\* the promise of the call is settled
Settled(c) == Len(c.resolved) + Len(c.rejected) = 1

\* the events of a history that are end or error
Terminations(h) == EventsOf(h, "end") \cup EventsOf(h, "error")

\* the events of a history that are end or an error with a truthy payload
TruthyTerminations(h) ==
    EventsOf(h, "end") \cup {i \in EventsOf(h, "error") : Truthy(h[i].arg)}

\* C19 as stated, its safety half: once the stream has delivered end or
\* error, the promise is settled and the three listeners are removed, in the
\* step that delivered the event.
C19_EndOrErrorSettles ==
    Terminations(raHist) # {} => (Settled(ra) /\ ra.listeners = {})

\* C19, amended: once the stream has delivered end, or error with a truthy
\* payload, the promise is settled and the three listeners are removed in the
\* step that delivered the event; an error with a falsy payload leaves the
\* call as it was; and on a stream that eventually ends every call eventually
\* settles.
C19_TerminationSettles ==
    /\ [](TruthyTerminations(raHist) # {} => (Settled(ra) /\ ra.listeners = {}))
    /\ []((/\ raHist # <<>>
           /\ \A i \in 1..Len(raHist) :
                 raHist[i].ev = "error" /\ ~Truthy(raHist[i].arg))
          => (~Settled(ra) /\ ra.listeners = {"error", "end", "data"}))
    /\ (ra.called ~> Settled(ra))

\* an error event with a falsy payload left the call pending; the end that
\* followed resolved it and removed the listeners
C19_Witness ==
    /\ raHist = <<[ev |-> "error", arg |-> Undefined],
                  [ev |-> "data", arg |-> JsBuf(<<1>>)],
                  [ev |-> "end", arg |-> Undefined]>>
    /\ ra.resolved = <<JsBuf(<<1>>)>>
    /\ ra.rejected = <<>>
    /\ ra.listeners = {}

-----------------------------------------------------------------------------
(* Events observed after completion *)

\* the closure state the i-th late event left behind
AfterLate(i) == IF i < Len(raLate) THEN raLate[i + 1].before ELSE ra

\* C16: after a readAll call has completed, a data, end or error event its
\* handlers still observe changes neither the aggregation buffer of the call
\* nor the settlement of its promise.
C16_LateEventsChangeNothing ==
    \A i \in 1..Len(raLate) :
        /\ AfterLate(i).buff = raLate[i].before.buff
        /\ AfterLate(i).resolved = raLate[i].before.resolved
        /\ AfterLate(i).rejected = raLate[i].before.rejected

\* the half of C16 that holds: no late event settles the promise again
C16_LateEventsSettleNothing ==
    \A i \in 1..Len(raLate) :
        /\ AfterLate(i).resolved = raLate[i].before.resolved
        /\ AfterLate(i).rejected = raLate[i].before.rejected

-----------------------------------------------------------------------------
(* Properties of two readAll calls *)

\* the closure state a call reaches alone from the events in h
RECURSIVE ReplayFrom(_, _)
ReplayFrom(c, h) ==
    IF h = <<>> THEN c
    ELSE ReplayFrom(Deliver(c, Head(h).ev, Head(h).arg), Tail(h))

\* the closure state of call i had it been the only call on its stream
Alone(i) == ReplayFrom(readAllBody(JsStream, pair.encOf[i], 0, Null), pair.hist[i])

\* C17: two concurrent readAll calls, on two streams or on one, share no
\* mutable state: the buffer, the completion flag, the listeners and the
\* settlement of each call are those it would have alone with the events its
\* own listeners got, so the completion of one call neither settles the
\* other, nor removes the other's listeners, nor changes the other's buffer.
C17_CallsShareNothing ==
    /\ \A i \in Calls : pair.streamOf[i] # 0 => pair.calls[i] = Alone(i)
    /\ \A i \in Calls, j \in Calls :
          (/\ i # j
           /\ pair.streamOf[i] # 0 /\ pair.streamOf[j] # 0
           /\ pair.calls[i].completedInvoked
           /\ EventsOf(pair.hist[j], "end") = {}
           /\ EventsOf(pair.hist[j], "error") = {}
           /\ EncodingOk(UsedEnc(pair.encOf[j])))
          => /\ ~pair.calls[j].completedInvoked
             /\ pair.calls[j].resolved = <<>> /\ pair.calls[j].rejected = <<>>
             /\ pair.calls[j].listeners = {"error", "end", "data"}
             /\ pair.calls[j].buff = JsBuf(DataBytes(pair.hist[j], UsedEnc(pair.encOf[j])))

\* both calls read stream 1; the chunk 'a' made call 1 fail on its unknown
\* encoding while call 2 kept it, and the end resolved call 2 alone
C17_Witness ==
    /\ pair.streamOf = <<1, 1>>
    /\ pair.encOf = <<JsStr(<<120>>), Undefined>>
    /\ pair.hist[1] = <<[ev |-> "data", arg |-> JsStr(<<97>>)]>>
    /\ pair.hist[2] = <<[ev |-> "data", arg |-> JsStr(<<97>>)],
                        [ev |-> "end", arg |-> Undefined]>>
    /\ Len(pair.calls[1].rejected) = 1
    /\ pair.calls[1].listeners = {}
    /\ pair.calls[2].resolved = <<JsBuf(<<97>>)>>

-----------------------------------------------------------------------------
(* Properties of execFile *)

\* C12: the argument list handed to the launcher is empty when args is nil
\* or absent; otherwise it has as many elements as args, in the same order,
\* each the string coercion of its element, nil elements kept.
C12_ArgumentList ==
    ex.called =>
        IF IsNil(ex.argsIn) THEN ex.args = <<>>
        ELSE /\ Len(ex.args) = Len(ArrayElems(ex.argsIn))
             /\ \A i \in 1..Len(ex.args) :
                   ex.args[i] = JsStr(toStringSafe(ArrayElems(ex.argsIn)[i]))

\* the half of C12 that holds: the elements of an args array are kept, in
\* order, as their string coercions
C12_ArrayArgumentsKept ==
    (ex.called /\ ex.argsIn.kind = "array") =>
        /\ Len(ex.args) = Len(ArrayElems(ex.argsIn))
        /\ \A i \in 1..Len(ex.args) :
              ex.args[i] = JsStr(toStringSafe(ArrayElems(ex.argsIn)[i]))

\* C13: the promise of one execFile call is settled at most once, whatever
\* the launcher does (throws, invokes the callback with or without error,
\* more than once) and however the normalizations end.
C13_ExecSettledAtMostOnce == Len(ex.resolved) + Len(ex.rejected) <= 1

\* the callback ran twice, with outputs and with an error; the normalization
\* has ended and the promise is settled once
C13_Witness ==
    /\ Len(ex.callbacks) = 2
    /\ \E i \in 1..2 : Truthy(ex.callbacks[i].err)
    /\ Len(ex.tasks) = 1 /\ ex.tasks[1].pc = "done"
    /\ Len(ex.resolved) + Len(ex.rejected) = 1

\* the callback invocations that reported no error
SuccessCallbacks == {i \in 1..Len(ex.callbacks) : ~Truthy(ex.callbacks[i].err)}

\* C14: when the launcher throws, or the callback reports an execution error,
\* execFile rejects with exactly that error; no normalization is started and
\* no field of the result is populated.
C14_FailureRejectsAtOnce ==
    /\ ex.launchThrown # <<>> =>
          /\ ex.rejected = ex.launchThrown /\ ex.resolved = <<>>
          /\ ex.tasks = <<>> /\ ex.RESULT = NoResult
    /\ (ex.callbacks # <<>> /\ Truthy(ex.callbacks[1].err)) =>
          /\ ex.rejected = <<ex.callbacks[1].err>> /\ ex.resolved = <<>>
    /\ (ex.callbacks # <<>> /\ SuccessCallbacks = {}) =>
          /\ ex.tasks = <<>> /\ ex.RESULT = NoResult
    /\ Len(ex.tasks) = Cardinality(SuccessCallbacks)

\* the callback reported the error E4: rejected with it, nothing normalized,
\* the result untouched
C14_Witness ==
    /\ ex.launchThrown = <<>>
    /\ Len(ex.callbacks) = 1
    /\ ex.callbacks[1].err = JsErr(<<69, 52>>)
    /\ ex.rejected = <<JsErr(<<69, 52>>)>>
    /\ ex.resolved = <<>>
    /\ ex.tasks = <<>>
    /\ ex.RESULT = NoResult

\* C15: whenever the promise resolves, the result holds the process handle
\* and the two normalized buffers; when the normalization of the standard
\* error or of the standard output of the callback fails, the promise rejects
\* with that error and does not resolve.
C15_ResolvesComplete ==
    /\ \A i \in 1..Len(ex.resolved) :
          /\ ex.resolved[i].process = ProcessHandle
          /\ IsBuffer(ex.resolved[i].stdErr)
          /\ IsBuffer(ex.resolved[i].stdOut)
    /\ (Len(ex.callbacks) = 1 /\ Len(ex.tasks) = 1) =>
          LET e == NormalizeOutput(ex.callbacks[1].stderr)
              o == NormalizeOutput(ex.callbacks[1].stdout)
              done == ex.tasks[1].pc = "done"
          IN IF e.settled = "rejected"
                THEN /\ ex.resolved = <<>>
                     /\ ex.RESULT.stdOut = Undefined
                     /\ done => ex.rejected = <<e.result>>
             ELSE IF o.settled = "rejected"
                THEN /\ ex.resolved = <<>>
                     /\ done => ex.rejected = <<o.result>>
             ELSE done => /\ ex.rejected = <<>>
                          /\ ex.resolved = <<[stdErr |-> e.result, stdOut |-> o.result,
                                              process |-> ProcessHandle]>>

\* the callback handed over 'ab' and a buffer: resolved with the process and
\* both buffers
C15_Witness ==
    /\ Len(ex.callbacks) = 1
    /\ Len(ex.tasks) = 1 /\ ex.tasks[1].pc = "done"
    /\ ex.resolved = <<[stdErr |-> JsBuf(<<1>>), stdOut |-> JsBuf(<<97, 98>>),
                        process |-> ProcessHandle]>>
    /\ ex.rejected = <<>>

\* the normalization of the standard output failed after the standard error
\* was stored: rejected with the depth error, never resolved
C15_FailureReached ==
    /\ Len(ex.callbacks) = 1
    /\ ex.callbacks[1].stdout = UnnormalizableOutput
    /\ Len(ex.tasks) = 1 /\ ex.tasks[1].pc = "done"
    /\ ex.RESULT.stdErr = JsBuf(<<101>>)
    /\ ex.rejected = <<RecursionLimitError(JsNum(DefaultMaxDepth))>>
    /\ ex.resolved = <<>>

-----------------------------------------------------------------------------
(* A completed-action without a failure callback *)

\* C21: for a guard created without a failure callback, a first call with a
\* truthy error invokes no callback and still consumes the guard: the flag is
\* set by the first call in every case and is never cleared, so a later call
\* without error does not invoke the success callback.
C21_ErrorWithoutRejectConsumes ==
    /\ [](guard.created =>
            /\ guard.completedInvoked <=> (guardCalls # <<>>)
            /\ (~guard.reject /\ guardCalls # <<>> /\ Truthy(guardCalls[1][1])) =>
                  (guard.resolved = <<>> /\ guard.rejected = <<>>))
    /\ [][guard.completedInvoked => guard'.completedInvoked]_vars

\* a guard with a success callback only: a first call with the error E1, then
\* a call without error and with the result 1; no callback has run
C21_Witness ==
    /\ guard.created /\ guard.resolve /\ ~guard.reject
    /\ guardCalls = <<<<JsErr(<<69, 49>>), Undefined>>, <<Null, JsNum(1)>>>>
    /\ guard.completedInvoked
    /\ guard.resolved = <<>>
    /\ guard.rejected = <<>>

====
